---- MODULE Spec2Model ----
(***************************************************************************)
(* The retrieval strategy engine of                                        *)
(* fu_playground/retriver_demo_low/retriver_demo.py: RetrieverTools        *)
(* (strategy selection, query rewrite, parameters, dispatchers) and        *)
(* RetrieverAgent (search, post-processing, event listeners).              *)
(*                                                                         *)
(* Strings are sequences of atoms.  An atom is a word, a quote character, *)
(* one space, or one Chinese character named by its code point ("u6700"). *)
(* The Chinese literals of the source are written in pinyin: "zuixin",     *)
(* "xinwen", "shishi" are the three Chinese recency keywords of line 154,  *)
(* "wendang" is the document marker of line 158, and                       *)
(* "xiangguanxinxihexiangxineirong" is the text of the suffix of line 145; *)
(* Spell gives the characters of each.  Scores and thresholds are in       *)
(* tenths (0.5 is 5).                                                      *)
(***************************************************************************)
EXTENDS Integers, Sequences, FiniteSets, TLC

VARIABLES
    event_handlers,     \* self.event_handlers: the registered listeners, in order
    enable_events,      \* self.enable_events
    zilliz_client,      \* self.tools.zilliz_client is not None
    opensearch_client,  \* self.tools.opensearch_client is not None
    pc,                 \* where the current search call is
    query,              \* search's argument query
    context,            \* search's argument context (None already replaced by {})
    strategy,           \* the RetrievalStrategy of the call, or None
    results,            \* the local results of search
    processed_results,  \* the local processed_results of search
    response,           \* what search returned, or None
    events,             \* the events emitted in this call, with the listeners invoked
    dispatches,         \* the _execute_search_strategy calls of this call that returned
    in_flight,          \* the backend calls issued and not yet returned
    previous            \* what the call that returned last was given and what it gave,
                        \* or None: kept where calls are compared with one another

vars == <<event_handlers, enable_events, zilliz_client, opensearch_client, pc,
          query, context, strategy, results, processed_results, response,
          events, dispatches, in_flight, previous>>

----------------------------------------------------------------------------
(* Bounds of the model *)

MaxQueryLen == 5
MaxResults == 3
MaxLimit == 2
MaxHandlers == 2
MaxReply == 2

MaxListeners == 3

MaxWebResults == 8

----------------------------------------------------------------------------
(* Python values *)

None == <<>>

EmptyDict == <<>>

Get(mapping, key, default) ==
    IF key \in DOMAIN mapping THEN mapping[key] ELSE default

Min(a, b) == IF a <= b THEN a ELSE b

Max(a, b) == IF a >= b THEN a ELSE b

\* s[:n] of a list
SliceTo(s, n) ==
    IF n >= 0 THEN SubSeq(s, 1, Min(n, Len(s)))
    ELSE SubSeq(s, 1, Max(Len(s) + n, 0))

SP == " "

\* str.lower(), atom by atom
LowerAtom(a) ==
    CASE a = "LATEST" -> "latest"
      [] a = "CURRENT" -> "current"
      [] OTHER -> a

Lower(s) == [i \in 1..Len(s) |-> LowerAtom(s[i])]

\* the characters of an atom: a Chinese literal of the source is spelled by the
\* code points of its characters, every other atom is one unit
Spell(a) ==
    CASE a = "zuixin" -> <<"u6700", "u65b0">>
      [] a = "xinwen" -> <<"u65b0", "u95fb">>
      [] a = "shishi" -> <<"u5b9e", "u65f6">>
      [] a = "wendang" -> <<"u6587", "u6863">>
      [] a = "xiangguanxinxihexiangxineirong" ->
            <<"u76f8", "u5173", "u4fe1", "u606f", "u548c", "u8be6", "u7ec6", "u5185", "u5bb9">>
      [] OTHER -> <<a>>

\* a string as the sequence of its characters
RECURSIVE Flatten(_)
Flatten(s) == IF s = <<>> THEN <<>> ELSE Spell(Head(s)) \o Flatten(Tail(s))

\* word in text, both as characters: the characters of word occur in text, one
\* after the other
Occurs(text, word) ==
    \E t \in {text}, w \in {word} :
       \E i \in 1..(Len(t) - Len(w) + 1) : \A k \in 1..Len(w) : t[i + k - 1] = w[k]

\* keyword in s
Contains(s, a) == \E text \in {Flatten(s)} : Occurs(text, Spell(a))

\* len(s.split()): the maximal runs of non-space atoms
TokenCount(s) ==
    Cardinality({i \in 1..Len(s) : s[i] # SP /\ (i = 1 \/ s[i - 1] = SP)})

\* a query that is not a str: query.lower() raises AttributeError
NoneQuery == <<"None">>

----------------------------------------------------------------------------
(* RetrieverTools: the strategy *)

VECTOR == "vector"
KEYWORD == "keyword"
HYBRID == "hybrid"
WEB == "web"
CRM == "crm"

SearchStrategy == {VECTOR, KEYWORD, HYBRID, WEB, CRM}

RecencyKeywords == {"zuixin", "xinwen", "shishi", "current", "latest"}

DocMarker == "wendang"

\* the characters '"' and '`' of line 162 (a string of this notation cannot hold
\* the second, so it is named)
DQUOTE == "\""

BACKTICK == "backtick"

\* a suffix that asks for the latest of the related information
QuerySuffixAskingLatest == <<SP, "zuixin", "xiangguanxinxihexiangxineirong">>

QuerySuffix == <<SP, "xiangguanxinxihexiangxineirong">>

MinQueryTokens == 3

DefaultLimit == 10

DefaultScoreThreshold == 5

\* a rewrite that also expands queries of exactly three tokens
rewrite_query_up_to_three(q, ctx) ==
    IF TokenCount(q) <= MinQueryTokens THEN q \o QuerySuffix ELSE q

rewrite_query_if_needed(q, ctx) ==
    IF TokenCount(q) < MinQueryTokens THEN q \o QuerySuffix ELSE q

\* a selector that looks at the document type before the recency keywords
select_search_strategy_doc_first(q, ctx) ==
    LET doc_type == Get(ctx, "doc_type", "auto")
        text == Flatten(q)
        lowered == Flatten(Lower(q))
    IN
    IF doc_type = "pdf" \/ Occurs(text, Spell(DocMarker)) THEN VECTOR
    ELSE IF \E keyword \in RecencyKeywords : Occurs(lowered, Spell(keyword)) THEN WEB
    ELSE IF Occurs(text, Spell(DQUOTE)) \/ Occurs(text, Spell(BACKTICK)) THEN KEYWORD
    ELSE HYBRID

\* a selector that looks at the quote characters before the document marker
select_search_strategy_quote_first(q, ctx) ==
    LET doc_type == Get(ctx, "doc_type", "auto")
        text == Flatten(q)
        lowered == Flatten(Lower(q))
    IN
    IF \E keyword \in RecencyKeywords : Occurs(lowered, Spell(keyword)) THEN WEB
    ELSE IF Occurs(text, Spell(DQUOTE)) \/ Occurs(text, Spell(BACKTICK)) THEN KEYWORD
    ELSE IF doc_type = "pdf" \/ Occurs(text, Spell(DocMarker)) THEN VECTOR
    ELSE HYBRID

select_search_strategy(q, ctx) ==
    LET doc_type == Get(ctx, "doc_type", "auto")
        text == Flatten(q)
        lowered == Flatten(Lower(q))
    IN
    IF \E keyword \in RecencyKeywords : Occurs(lowered, Spell(keyword)) THEN WEB
    ELSE IF doc_type = "pdf" \/ Occurs(text, Spell(DocMarker)) THEN VECTOR
    ELSE IF Occurs(text, Spell(DQUOTE)) \/ Occurs(text, Spell(BACKTICK)) THEN KEYWORD
    ELSE HYBRID

\* a table that sends hybrid to the keyword index
get_data_source_hybrid_to_opensearch(s) ==
    CASE s = VECTOR -> "zilliz_cloud"
      [] s = KEYWORD -> "opensearch"
      [] s = HYBRID -> "opensearch"
      [] s = WEB -> "duckduckgo"
      [] s = CRM -> "crm_api"
      [] OTHER -> "unknown"

get_data_source_for_strategy(s) ==
    CASE s = VECTOR -> "zilliz_cloud"
      [] s = KEYWORD -> "opensearch"
      [] s = HYBRID -> "zilliz_cloud"
      [] s = WEB -> "duckduckgo"
      [] s = CRM -> "crm_api"
      [] OTHER -> "unknown"

\* a builder that lets the context set the hybrid weights
build_search_parameters_weights_from_context(q, ctx, s) ==
    LET params == [limit |-> Get(ctx, "limit", DefaultLimit),
                   score_threshold |-> Get(ctx, "score_threshold", DefaultScoreThreshold)]
    IN  IF s = VECTOR THEN params @@ [search_fields |-> <<"content", "summary">>]
        ELSE IF s = KEYWORD
             THEN params @@ [search_fields |-> <<"title", "content", "keywords">>]
        ELSE IF s = HYBRID
             THEN params @@ [vector_weight |-> Get(ctx, "vector_weight", 7),
                             keyword_weight |-> Get(ctx, "keyword_weight", 3)]
        ELSE params

build_search_parameters(q, ctx, s) ==
    LET params == [limit |-> Get(ctx, "limit", DefaultLimit),
                   score_threshold |-> Get(ctx, "score_threshold", DefaultScoreThreshold)]
    IN  IF s = VECTOR THEN params @@ [search_fields |-> <<"content", "summary">>]
        ELSE IF s = KEYWORD
             THEN params @@ [search_fields |-> <<"title", "content", "keywords">>]
        ELSE IF s = HYBRID
             THEN params @@ [vector_weight |-> 7, keyword_weight |-> 3]
        ELSE params

\* a table in which web falls back to keyword
fallback_mapping_with_web ==
    [s \in {VECTOR, KEYWORD, HYBRID, WEB} |-> IF s = KEYWORD THEN WEB ELSE KEYWORD]

fallback_mapping == [s \in {VECTOR, KEYWORD, HYBRID} |->
                        IF s = KEYWORD THEN WEB ELSE KEYWORD]

get_fallback_strategy(primary) ==
    IF primary \in DOMAIN fallback_mapping
    THEN [strategy_type |-> fallback_mapping[primary],
          data_source |-> get_data_source_for_strategy(fallback_mapping[primary])]
    ELSE None

\* think_retrieval_strategy raises at its first statement, query.lower()
ThinkRaises(q, ctx) == q = NoneQuery

\* a strategy engine that keeps selecting on the query of the call before
think_retrieval_strategy_sticky(q, ctx) ==
    LET rewritten_query == rewrite_query_if_needed(q, ctx)
        remembered == IF previous # None THEN previous.query ELSE rewritten_query
        s == select_search_strategy(remembered, ctx)
    IN  [strategy_type |-> s,
         data_source |-> get_data_source_for_strategy(s),
         query |-> rewritten_query,
         original_query |-> q,
         filters |-> Get(ctx, "filters", EmptyDict),
         parameters |-> build_search_parameters(rewritten_query, ctx, s),
         fallback_strategy |-> get_fallback_strategy(s)]

think_retrieval_strategy(q, ctx) ==
    LET rewritten_query == rewrite_query_if_needed(q, ctx)
        s == select_search_strategy(rewritten_query, ctx)
    IN  [strategy_type |-> s,
         data_source |-> get_data_source_for_strategy(s),
         query |-> rewritten_query,
         original_query |-> q,
         filters |-> Get(ctx, "filters", EmptyDict),
         parameters |-> build_search_parameters(rewritten_query, ctx, s),
         fallback_strategy |-> get_fallback_strategy(s)]

----------------------------------------------------------------------------
(* Search results.  A content is named; Text gives its characters.  "longA" *)
(* and "longB" differ only in character 101, "near" differs from both in    *)
(* character 100, and NoneContent is a content that is None, not a str.     *)

KeyLen == 100

NoneContent == "None"

Chars(n, c) == [i \in 1..n |-> c]

Text(content) ==
    CASE content = "short" -> <<"s">>
      [] content = "longA" -> Chars(100, "a") \o <<"x">>
      [] content = "longB" -> Chars(100, "a") \o <<"y">>
      [] content = "near" -> Chars(99, "a") \o <<"z">>
      [] OTHER -> <<content>>

\* a deduplication key that is the whole content
ContentKeyWhole(content) == Text(content)

\* result.get("content", "")[:100]
ContentKey(content) == SliceTo(Text(content), KeyLen)

SearchResult(content, score, source) ==
    [content |-> content, score |-> score, source |-> source]

----------------------------------------------------------------------------
(* RetrieverTools: the dispatchers.  A reply is what the backend call does: *)
(* it raises (ok = FALSE) or returns a list of raw items; a raw item is a   *)
(* mapping ("dict"), a plain string ("str") or something else ("other").    *)

Reply(ok, items) == [ok |-> ok, items |-> items]

NoReply == Reply(TRUE, <<>>)

AllDicts(items) == \A i \in 1..Len(items) : items[i].shape = "dict"

\* the items formatted before the first one that is not a mapping
RECURSIVE FormattedPrefix(_, _, _)
FormattedPrefix(items, i, source) ==
    IF i > Len(items) \/ items[i].shape # "dict" THEN <<>>
    ELSE <<[content |-> items[i].content, score |-> items[i].score,
            source |-> source]>> \o FormattedPrefix(items, i + 1, source)

\* a vector dispatcher that returns what it had formatted when the formatting threw
zilliz_search_keeping_partial(client, reply) ==
    IF ~client \/ ~reply.ok THEN <<>>
    ELSE FormattedPrefix(reply.items, 1, "zilliz_cloud")

zilliz_search(client, reply) ==
    IF ~client THEN <<>>
    ELSE IF ~reply.ok \/ ~AllDicts(reply.items) THEN <<>>
    ELSE [i \in 1..Len(reply.items) |->
            SearchResult(reply.items[i].content, reply.items[i].score, "zilliz_cloud")]

opensearch_search(client, reply) ==
    IF ~client THEN <<>>
    ELSE IF ~reply.ok \/ ~AllDicts(reply.items) THEN <<>>
    ELSE [i \in 1..Len(reply.items) |->
            SearchResult(reply.items[i].content, reply.items[i].score, "opensearch")]

RECURSIVE WebFormat(_, _, _)
WebFormat(items, idx, formatted_results) ==
    IF idx >= Len(items) THEN formatted_results
    ELSE LET result == items[idx + 1] IN
         IF result.shape \in {"dict", "str"}
         THEN WebFormat(items, idx + 1,
                  Append(formatted_results,
                         SearchResult(result.content, 10 - idx, "web")))
         ELSE WebFormat(items, idx + 1, formatted_results)

\* a web dispatcher that keeps the mappings and skips the plain strings
RECURSIVE WebFormatMappings(_, _, _)
WebFormatMappings(items, idx, formatted_results) ==
    IF idx >= Len(items) THEN formatted_results
    ELSE LET result == items[idx + 1] IN
         IF result.shape = "dict"
         THEN WebFormatMappings(items, idx + 1,
                  Append(formatted_results,
                         SearchResult(result.content, 10 - idx, "web")))
         ELSE WebFormatMappings(items, idx + 1, formatted_results)

web_search_mappings_only(reply) ==
    IF ~reply.ok THEN <<>> ELSE WebFormatMappings(reply.items, 0, <<>>)

web_search(reply) ==
    IF ~reply.ok THEN <<>> ELSE WebFormat(reply.items, 0, <<>>)

\* dispatchers that call their backend whether or not a client was configured
BackendCalledWithoutClient(data_source, zilliz, opensearch) ==
    data_source \in {"zilliz_cloud", "opensearch", "duckduckgo"}

\* whether _execute_search_strategy reaches a backend call
BackendCalled(data_source, zilliz, opensearch) ==
    CASE data_source = "zilliz_cloud" -> zilliz
      [] data_source = "opensearch" -> opensearch
      [] data_source = "duckduckgo" -> TRUE
      [] OTHER -> FALSE

\* the dispatcher that _execute_search_strategy invokes for a data source
Dispatcher(data_source) ==
    CASE data_source = "zilliz_cloud" -> "zilliz_search"
      [] data_source = "opensearch" -> "opensearch_search"
      [] data_source = "duckduckgo" -> "web_search"
      [] OTHER -> "none"

execute_search_strategy(s, zilliz, opensearch, reply) ==
    CASE s.data_source = "zilliz_cloud" -> zilliz_search(zilliz, reply)
      [] s.data_source = "opensearch" -> opensearch_search(opensearch, reply)
      [] s.data_source = "duckduckgo" -> web_search(reply)
      [] OTHER -> <<>>

----------------------------------------------------------------------------
(* RetrieverAgent._post_process_results *)

\* a post-processing that also raises when it is given no result at all
PostProcessRaisesOnNothing(rs) ==
    rs = <<>> \/ \E i \in 1..Len(rs) : rs[i].content = NoneContent

\* result.get("content", "")[:100] raises TypeError on a content that is None
PostProcessRaises(rs) == \E i \in 1..Len(rs) : rs[i].content = NoneContent

RECURSIVE DedupeFrom(_, _, _, _)
DedupeFrom(rs, i, seen, unique_results) ==
    IF i > Len(rs) THEN unique_results
    ELSE LET key == ContentKey(rs[i].content) IN
         IF key \notin seen
         THEN DedupeFrom(rs, i + 1, seen \cup {key}, Append(unique_results, rs[i]))
         ELSE DedupeFrom(rs, i + 1, seen, unique_results)

Dedupe(rs) == DedupeFrom(rs, 1, {}, <<>>)

\* list.sort(key=score, reverse=True): a stable insertion sort, greater scores first
RECURSIVE InsertByScore(_, _)
InsertByScore(sorted, r) ==
    IF sorted = <<>> THEN <<r>>
    ELSE IF Head(sorted).score >= r.score
         THEN <<Head(sorted)>> \o InsertByScore(Tail(sorted), r)
         ELSE <<r>> \o sorted

RECURSIVE SortFrom(_, _, _)
SortFrom(rs, i, sorted) ==
    IF i > Len(rs) THEN sorted
    ELSE SortFrom(rs, i + 1, InsertByScore(sorted, rs[i]))

SortByScore(rs) == SortFrom(rs, 1, <<>>)

\* a filter that keeps the scores above the threshold only
Above(threshold, r) == r.score > threshold

AtLeast(threshold, r) == r.score >= threshold

FilterByThreshold(rs, threshold) ==
    SelectSeq(rs, LAMBDA r : AtLeast(threshold, r))

Truncate(rs, limit) == SliceTo(rs, limit)

\* a post-processing that sorts first, so that the best result of a key survives
post_process_results_best_of_key(rs, s) ==
    LET unique_results == Dedupe(SortByScore(rs))
        threshold == Get(s.parameters, "score_threshold", DefaultScoreThreshold)
        filtered_results == FilterByThreshold(unique_results, threshold)
        limit == Get(s.parameters, "limit", DefaultLimit)
    IN  Truncate(filtered_results, limit)

post_process_results(rs, s) ==
    LET unique_results == SortByScore(Dedupe(rs))
        threshold == Get(s.parameters, "score_threshold", DefaultScoreThreshold)
        filtered_results == FilterByThreshold(unique_results, threshold)
        limit == Get(s.parameters, "limit", DefaultLimit)
    IN  Truncate(filtered_results, limit)

----------------------------------------------------------------------------
(* RetrieverAgent._emit_event: a handler is "ok" (returns) or "raise"       *)
(* (raises an Exception whenever it is invoked).                            *)

\* a removal that takes every entry equal to h out of the list
RemoveEvery(handlers, h) == SelectSeq(handlers, LAMBDA x : x # h)

\* list.remove(h) when h is in the list, nothing otherwise
RECURSIVE RemoveFirst(_, _)
RemoveFirst(handlers, h) ==
    IF handlers = <<>> THEN <<>>
    ELSE IF Head(handlers) = h THEN Tail(handlers)
    ELSE <<Head(handlers)>> \o RemoveFirst(Tail(handlers), h)

\* the position of the first entry equal to h
IndexOf(handlers, h) ==
    CHOOSE i \in 1..Len(handlers) :
        handlers[i] = h /\ \A j \in 1..(i - 1) : handlers[j] # h

RemoveAt(s, at) == SubSeq(s, 1, at - 1) \o SubSeq(s, at + 1, Len(s))

\* What a listener does when it is called: "ok" returns, "raise" raises,
\* "remove_self" calls remove_event_handler on itself, "add_ok" calls
\* add_event_handler("ok").
\*
\* The for loop of _emit_event walks the list by position: after the call at
\* position i it goes on to position i + 1 of the list as it then is.  ids numbers
\* the entries: 1..n are the entries of the list when the loop began, in order,
\* and the entries appended during the loop are numbered on from n + 1.  calls is
\* the numbers of the entries called, in the order of the calls.
RECURSIVE NotifyFrom(_, _, _, _, _)
NotifyFrom(handlers, ids, i, calls, fresh) ==
    IF i > Len(handlers)
    THEN [calls |-> calls, raised |-> FALSE, handlers |-> handlers]
    ELSE LET handler == handlers[i]
             called == Append(calls, ids[i])
         IN  CASE handler = "remove_self" ->
                    NotifyFrom(RemoveFirst(handlers, handler),
                               RemoveAt(ids, IndexOf(handlers, handler)),
                               i + 1, called, fresh)
               [] handler = "add_ok" ->
                    NotifyFrom(Append(handlers, "ok"), Append(ids, fresh),
                               i + 1, called, fresh + 1)
               [] OTHER -> NotifyFrom(handlers, ids, i + 1, called, fresh)

\* _emit_event without the try/except around the handler call
RECURSIVE NotifyNoCatchFrom(_, _, _)
NotifyNoCatchFrom(handlers, i, calls) ==
    IF i > Len(handlers)
    THEN [calls |-> calls, raised |-> FALSE, handlers |-> handlers]
    ELSE IF handlers[i] = "raise"
         THEN [calls |-> Append(calls, i), raised |-> TRUE, handlers |-> handlers]
    ELSE NotifyNoCatchFrom(handlers, i + 1, Append(calls, i))

emit_event_no_catch(handlers, event_type) == NotifyNoCatchFrom(handlers, 1, <<>>)

\* a notification that walks the listener list from its last entry to its first
RECURSIVE NotifyBackFrom(_, _, _)
NotifyBackFrom(handlers, i, calls) ==
    IF i < 1 THEN [calls |-> calls, raised |-> FALSE, handlers |-> handlers]
    ELSE NotifyBackFrom(handlers, i - 1, Append(calls, i))

emit_event_last_first(handlers, event_type) ==
    NotifyBackFrom(handlers, Len(handlers), <<>>)

\* a notification that walks a copy of the listener list made when it begins
RECURSIVE NotifyCopyFrom(_, _, _, _)
NotifyCopyFrom(copy, handlers, i, calls) ==
    IF i > Len(copy)
    THEN [calls |-> calls, raised |-> FALSE, handlers |-> handlers]
    ELSE NotifyCopyFrom(copy,
                        CASE copy[i] = "remove_self" -> RemoveFirst(handlers, copy[i])
                          [] copy[i] = "add_ok" -> Append(handlers, "ok")
                          [] OTHER -> handlers,
                        i + 1, Append(calls, i))

emit_event_over_copy(handlers, event_type) ==
    NotifyCopyFrom(handlers, handlers, 1, <<>>)

\* the entries invoked, whether an exception leaves _emit_event, and the
\* listener list when the loop is over
emit_event(handlers, event_type) ==
    NotifyFrom(handlers, [i \in 1..Len(handlers) |-> i], 1, <<>>, Len(handlers) + 1)

Emitted(evs, handlers, enabled, event_type) ==
    IF enabled
    THEN Append(evs, [event |-> event_type,
                      listeners |-> handlers,
                      calls |-> emit_event(handlers, event_type).calls])
    ELSE evs

\* the same, the event carrying its data
EmittedWith(evs, handlers, enabled, event_type, data) ==
    IF enabled
    THEN Append(evs, [event |-> event_type,
                      listeners |-> handlers,
                      calls |-> emit_event(handlers, event_type).calls,
                      data |-> data])
    ELSE evs

\* self.event_handlers after one event was emitted to the listeners
Notified(handlers, enabled, event_type) ==
    IF enabled THEN emit_event(handlers, event_type).handlers ELSE handlers

EmitRaised(handlers, enabled, event_type) ==
    enabled /\ emit_event(handlers, event_type).raised

----------------------------------------------------------------------------
(* RetrieverAgent.search *)

\* a success response whose metadata.query is the rewritten query
SuccessResponseEchoingRewritten(q, s, processed) ==
    [success |-> TRUE,
     results |-> processed,
     metadata |-> [total_results |-> Len(processed),
                   query |-> s.query,
                   rewritten_query |-> s.query,
                   strategy_used |-> s.strategy_type,
                   data_source |-> s.data_source],
     error |-> None]

SuccessResponse(q, s, processed) ==
    [success |-> TRUE,
     results |-> processed,
     metadata |-> [total_results |-> Len(processed),
                   query |-> q,
                   rewritten_query |-> s.query,
                   strategy_used |-> s.strategy_type,
                   data_source |-> s.data_source],
     error |-> None]

FailureResponse(q) ==
    [success |-> FALSE,
     results |-> <<>>,
     metadata |-> [query |-> q],
     error |-> [code |-> "RETRIEVAL_FAILED"]]

\* the fallback decision without the test of the primary result
NeedsFallbackIgnoringResults(rs, s) == s.fallback_strategy # None

\* if not results and strategy.fallback_strategy
NeedsFallback(rs, s) == rs = <<>> /\ s.fallback_strategy # None

FallbackStrategy(s) ==
    [strategy_type |-> s.fallback_strategy.strategy_type,
     data_source |-> s.fallback_strategy.data_source,
     query |-> s.query,
     original_query |-> s.original_query,
     filters |-> s.filters,
     parameters |-> s.parameters,
     fallback_strategy |-> None]

\* one _execute_search_strategy call: what it was given, the dispatcher it invoked,
\* whether that reached the backend, what the backend did and what was returned
Dispatch(s, called, reply, returned) ==
    [strategy_type |-> s.strategy_type,
     data_source |-> s.data_source,
     query |-> s.query,
     filters |-> s.filters,
     parameters |-> s.parameters,
     dispatcher |-> Dispatcher(s.data_source),
     called |-> called,
     reply |-> reply,
     returned |-> returned]

\* an except branch that ends in "raise"
ExceptReraising(q, evs) ==
    /\ events' = Emitted(evs, event_handlers, enable_events, "RetrievalError")
    /\ pc' = "raised"
    /\ response' = None

\* an except branch after which the call counts as completed
ExceptCompleting(q, evs) ==
    /\ events' = Emitted(evs, event_handlers, enable_events, "RetrievalError")
    /\ pc' = "completed"
    /\ response' = FailureResponse(q)

\* an except branch that emits no event
ExceptSilent(q, evs) ==
    /\ events' = evs
    /\ pc' = "errored"
    /\ response' = FailureResponse(q)

\* the except branch of search, entered with the events evs emitted so far
Except(q, evs) ==
    /\ events' = Emitted(evs, event_handlers, enable_events, "RetrievalError")
    /\ IF EmitRaised(event_handlers, enable_events, "RetrievalError")
       THEN pc' = "raised" /\ response' = None
       ELSE pc' = "errored" /\ response' = FailureResponse(q)

Search(q, ctx) ==
    /\ pc = "idle"
    /\ query' = q
    /\ context' = ctx
    /\ LET evs == Emitted(<<>>, event_handlers, enable_events, "RetrievalStarted") IN
       IF EmitRaised(event_handlers, enable_events, "RetrievalStarted")
       THEN Except(q, evs)
       ELSE pc' = "started" /\ events' = evs /\ response' = None
    /\ event_handlers' = Notified(event_handlers, enable_events, "RetrievalStarted")
    /\ UNCHANGED <<enable_events, zilliz_client, opensearch_client,
                   strategy, results, processed_results, dispatches, in_flight,
                   previous>>

SelectStrategy ==
    /\ pc = "started"
    /\ IF ThinkRaises(query, context)
       THEN strategy' = strategy /\ Except(query, events)
       ELSE LET s == think_retrieval_strategy(query, context)
                evs == Emitted(events, event_handlers, enable_events,
                               "RetrievalStrategyCompleted")
            IN  /\ strategy' = s
                /\ IF EmitRaised(event_handlers, enable_events,
                                 "RetrievalStrategyCompleted")
                   THEN Except(query, evs)
                   ELSE pc' = "selected" /\ events' = evs /\ response' = None
    /\ event_handlers' =
          Notified(event_handlers, enable_events,
                   IF ThinkRaises(query, context) THEN "RetrievalError"
                   ELSE "RetrievalStrategyCompleted")
    /\ UNCHANGED <<enable_events, zilliz_client, opensearch_client,
                   query, context, results, processed_results, dispatches, in_flight,
                   previous>>

\* a fallback decision that does not wait for the primary call to return
PrimaryIssued == pc \in {"dispatching", "dispatched"}

\* the fallback is decided where the primary call has returned (lines 493, 496)
AfterPrimary == pc = "dispatched"

\* 1 when the call of _execute_search_strategy on s reaches a backend, else 0
Issued(s) ==
    IF BackendCalled(s.data_source, zilliz_client, opensearch_client) THEN 1 ELSE 0

\* line 493 up to the backend call inside the dispatcher
IssuePrimary ==
    /\ pc = "selected"
    /\ pc' = "dispatching"
    /\ in_flight' = in_flight + Issued(strategy)
    /\ UNCHANGED <<event_handlers, enable_events, zilliz_client, opensearch_client,
                   query, context, strategy, results, processed_results, response,
                   events, dispatches, previous>>

\* the backend call returns or raises, and _execute_search_strategy returns
DispatchPrimary(reply) ==
    /\ pc = "dispatching"
    /\ LET called == BackendCalled(strategy.data_source, zilliz_client,
                                   opensearch_client)
           returned == execute_search_strategy(strategy, zilliz_client,
                                             opensearch_client, reply)
       IN  /\ called \/ reply = NoReply
           /\ results' = returned
           /\ dispatches' = Append(dispatches,
                                   Dispatch(strategy, called, reply, returned))
    /\ in_flight' = in_flight - Issued(strategy)
    /\ events' = Emitted(events, event_handlers, enable_events, "ToolCallCompleted")
    /\ pc' = "dispatched"
    /\ event_handlers' = Notified(event_handlers, enable_events, "ToolCallCompleted")
    /\ UNCHANGED <<enable_events, zilliz_client, opensearch_client,
                   query, context, strategy, processed_results, response, previous>>

\* lines 496-512 up to the backend call inside the fallback's dispatcher
IssueFallback ==
    /\ AfterPrimary
    /\ NeedsFallback(results, strategy)
    /\ LET evs == Emitted(events, event_handlers, enable_events,
                          "FallbackStrategyActivated")
       IN  IF EmitRaised(event_handlers, enable_events, "FallbackStrategyActivated")
           THEN Except(query, evs) /\ UNCHANGED in_flight
           ELSE /\ events' = evs
                /\ pc' = "fallback_dispatching"
                /\ in_flight' = in_flight + Issued(FallbackStrategy(strategy))
                /\ response' = None
    /\ event_handlers' = Notified(event_handlers, enable_events, "FallbackStrategyActivated")
    /\ UNCHANGED <<enable_events, zilliz_client, opensearch_client,
                   query, context, strategy, results, processed_results, dispatches,
                   previous>>

DispatchFallback(reply) ==
    /\ pc = "fallback_dispatching"
    /\ LET fallback_strategy == FallbackStrategy(strategy)
           called == BackendCalled(fallback_strategy.data_source, zilliz_client,
                                   opensearch_client)
           returned == execute_search_strategy(fallback_strategy, zilliz_client,
                                             opensearch_client, reply)
       IN  /\ called \/ reply = NoReply
           /\ results' = returned
           /\ dispatches' = Append(dispatches,
                                   Dispatch(fallback_strategy, called, reply,
                                            returned))
           /\ in_flight' = in_flight - Issued(fallback_strategy)
    /\ events' = Emitted(events, event_handlers, enable_events, "ToolCallCompleted")
    /\ pc' = "fallback_dispatched"
    /\ event_handlers' = Notified(event_handlers, enable_events, "ToolCallCompleted")
    /\ UNCHANGED <<enable_events, zilliz_client, opensearch_client,
                   query, context, strategy, processed_results, response, previous>>

PostProcess ==
    /\ \/ pc = "fallback_dispatched"
       \/ pc = "dispatched" /\ ~NeedsFallback(results, strategy)
    /\ IF PostProcessRaises(results)
       THEN processed_results' = processed_results /\ Except(query, events)
       ELSE /\ processed_results' = post_process_results(results, strategy)
            /\ pc' = "postprocessed"
            /\ UNCHANGED <<events, response>>
    /\ event_handlers' =
          IF PostProcessRaises(results)
          THEN Notified(event_handlers, enable_events, "RetrievalError")
          ELSE event_handlers
    /\ UNCHANGED <<enable_events, zilliz_client, opensearch_client,
                   query, context, strategy, results, dispatches, in_flight,
                   previous>>

\* a search that stays where it is after post-processing and never returns
CompleteNeverReturns == pc = "postprocessed" /\ UNCHANGED vars

\* the data of the RetrievalCompleted event
CompletedData(s, processed) ==
    [results_count |-> Len(processed), strategy |-> s.strategy_type]

\* a completion that names the strategy dispatched last
CompleteNamingLastDispatch ==
    /\ pc = "postprocessed"
    /\ LET last == dispatches[Len(dispatches)]
           s == [strategy EXCEPT !.strategy_type = last.strategy_type,
                                 !.data_source = last.data_source]
           evs == EmittedWith(events, event_handlers, enable_events,
                              "RetrievalCompleted", CompletedData(s, processed_results))
       IN  IF EmitRaised(event_handlers, enable_events, "RetrievalCompleted")
           THEN Except(query, evs)
           ELSE /\ pc' = "completed"
                /\ events' = evs
                /\ response' = SuccessResponse(query, s, processed_results)
    /\ event_handlers' = Notified(event_handlers, enable_events, "RetrievalCompleted")
    /\ UNCHANGED <<enable_events, zilliz_client, opensearch_client,
                   query, context, strategy, results, processed_results, dispatches,
                   in_flight, previous>>

Complete ==
    /\ pc = "postprocessed"
    /\ LET evs == EmittedWith(events, event_handlers, enable_events,
                              "RetrievalCompleted",
                              CompletedData(strategy, processed_results))
       IN  IF EmitRaised(event_handlers, enable_events, "RetrievalCompleted")
           THEN Except(query, evs)
           ELSE /\ pc' = "completed"
                /\ events' = evs
                /\ response' = SuccessResponse(query, strategy, processed_results)
    /\ event_handlers' = Notified(event_handlers, enable_events, "RetrievalCompleted")
    /\ UNCHANGED <<enable_events, zilliz_client, opensearch_client,
                   query, context, strategy, results, processed_results, dispatches,
                   in_flight, previous>>

\* search has returned (or raised): its locals are gone
ReturnLocals ==
    /\ pc \in {"completed", "errored", "raised"}
    /\ pc' = "idle"
    /\ query' = <<>>
    /\ context' = EmptyDict
    /\ strategy' = None
    /\ results' = <<>>
    /\ processed_results' = <<>>
    /\ response' = None
    /\ events' = <<>>
    /\ dispatches' = <<>>
    /\ UNCHANGED <<event_handlers, enable_events, zilliz_client, opensearch_client,
                   in_flight>>

Return == ReturnLocals /\ UNCHANGED previous

\* the same return, observed: the query, the context and the backend replies the
\* call was given, the strategy it selected and the response it gave
ReturnRecorded ==
    /\ ReturnLocals
    /\ previous' = [query |-> query,
                    context |-> context,
                    replies |-> [k \in 1..Len(dispatches) |-> dispatches[k].reply],
                    strategy_type |-> IF strategy = None THEN "none"
                                      ELSE strategy.strategy_type,
                    success |-> response # None /\ response.success,
                    results |-> IF response = None THEN <<>> ELSE response.results]

----------------------------------------------------------------------------
(* RetrieverAgent.add_event_handler, remove_event_handler *)

add_event_handler(h) ==
    /\ pc = "idle"
    /\ event_handlers' = Append(event_handlers, h)
    /\ UNCHANGED <<enable_events, zilliz_client, opensearch_client, pc, query,
                   context, strategy, results, processed_results, response, events,
                   dispatches, in_flight, previous>>

remove_event_handler(h) ==
    /\ pc = "idle"
    /\ event_handlers' = RemoveFirst(event_handlers, h)
    /\ UNCHANGED <<enable_events, zilliz_client, opensearch_client, pc, query,
                   context, strategy, results, processed_results, response, events,
                   dispatches, in_flight, previous>>

----------------------------------------------------------------------------
(* The inputs *)

Handlers == {"ok", "raise"}

QueryAtoms == {"latest", "LATEST", DocMarker, DQUOTE, BACKTICK, "ai", SP}

Queries ==
    UNION {[1..n -> QueryAtoms] : n \in 0..MaxQueryLen} \cup {NoneQuery}

SelectContexts == {EmptyDict, [doc_type |-> "pdf"], [doc_type |-> "news"]}

SearchQueries ==
    {<<"zuixin", SP, "ai", SP, "news">>,
     <<"wendang", DQUOTE>>,
     <<DQUOTE, "ai", DQUOTE>>,
     <<"ai", SP, "ai", SP, "ai">>,
     NoneQuery}

SearchContexts ==
    {EmptyDict,
     [limit |-> 1, score_threshold |-> 6, filters |-> [ws_id |-> "workspace_001"]]}

RawItem(shape, content, score) ==
    [shape |-> shape, content |-> content, score |-> score]

ReplyItems ==
    {RawItem("dict", "short", 5), RawItem("str", "longA", 6),
     RawItem("dict", NoneContent, 6)}

Replies ==
    {Reply(TRUE, items) : items \in UNION {[1..n -> ReplyItems] : n \in 0..MaxReply}}
    \cup {Reply(FALSE, <<>>)}

PostQuery == <<"ai", SP, "ai", SP, "ai">>

PostContexts ==
    {[doc_type |-> "pdf"] @@ l @@ t :
        l \in {EmptyDict} \cup {[limit |-> n] : n \in -1..MaxLimit},
        t \in {EmptyDict, [score_threshold |-> 4]}}

PostItems ==
    {RawItem("dict", c, sc) : c \in {"short", "longA", "longB", "near"}, sc \in {4, 6}}

PostReplies ==
    {Reply(TRUE, items) : items \in UNION {[1..n -> PostItems] : n \in 0..MaxResults}}

----------------------------------------------------------------------------
(* The specifications *)

Init ==
    /\ event_handlers = <<>>
    /\ enable_events \in BOOLEAN
    /\ zilliz_client \in BOOLEAN
    /\ opensearch_client \in BOOLEAN
    /\ pc = "idle"
    /\ query = <<>>
    /\ context = EmptyDict
    /\ strategy = None
    /\ results = <<>>
    /\ processed_results = <<>>
    /\ response = None
    /\ events = <<>>
    /\ dispatches = <<>>
    /\ in_flight = 0
    /\ previous = None

Next ==
    \/ pc = "idle" /\ \E q \in SearchQueries, ctx \in SearchContexts : Search(q, ctx)
    \/ SelectStrategy
    \/ IssuePrimary
    \/ pc = "dispatching" /\ \E reply \in Replies : DispatchPrimary(reply)
    \/ IssueFallback
    \/ pc = "fallback_dispatching" /\ \E reply \in Replies : DispatchFallback(reply)
    \/ PostProcess
    \/ Complete
    \/ Return
    \/ /\ pc = "idle" /\ Len(event_handlers) < MaxHandlers
       /\ \E h \in Handlers : add_event_handler(h)
    \/ pc = "idle" /\ \E h \in Handlers : remove_event_handler(h)

Spec == Init /\ [][Next]_vars

\* the strategy of every query up to MaxQueryLen atoms
InitSelect == Init /\ ~enable_events /\ zilliz_client /\ opensearch_client

NextSelect ==
    \/ pc = "idle" /\ \E q \in Queries, ctx \in SelectContexts : Search(q, ctx)
    \/ SelectStrategy

SpecSelect == InitSelect /\ [][NextSelect]_vars

\* the post-processing of every reply of the vector store up to MaxResults items
InitPost == Init /\ ~enable_events /\ zilliz_client /\ ~opensearch_client

NextPost ==
    \/ pc = "idle" /\ \E ctx \in PostContexts : Search(PostQuery, ctx)
    \/ SelectStrategy
    \/ IssuePrimary
    \/ pc = "dispatching" /\ \E reply \in PostReplies : DispatchPrimary(reply)
    \/ IssueFallback
    \/ DispatchFallback(NoReply)
    \/ PostProcess
    \/ Complete

SpecPost == InitPost /\ [][NextPost]_vars

\* the parameters of every strategy under contexts that set or leave out limit,
\* score_threshold and the two weights
ParamQueries ==
    {<<"zuixin", SP, "ai", SP, "news">>,
     <<"wendang", SP, "ai", SP, "ai">>,
     <<DQUOTE, "ai", DQUOTE>>,
     <<"ai", SP, "ai", SP, "ai">>}

ParamContexts ==
    {d @@ l @@ t @@ w :
        d \in {EmptyDict, [doc_type |-> "pdf"]},
        l \in {EmptyDict} \cup {[limit |-> n] : n \in 0..MaxLimit},
        t \in {EmptyDict, [score_threshold |-> 4]},
        w \in {EmptyDict, [vector_weight |-> 5, keyword_weight |-> 5]}}

NextParams ==
    \/ pc = "idle" /\ \E q \in ParamQueries, ctx \in ParamContexts : Search(q, ctx)
    \/ SelectStrategy

SpecParams == InitSelect /\ [][NextParams]_vars

\* the web dispatcher on every raw list of up to MaxResults mappings, plain strings
\* and other values (a raw web item has no score of its own)
WebQuery == <<"latest", SP, "ai", SP, "ai">>

WebItems ==
    {RawItem(shape, c, 0) : shape \in {"dict", "str"}, c \in {"short", "longA"}}
    \cup {RawItem("other", "short", 0)}

WebReplies ==
    {Reply(TRUE, items) : items \in UNION {[1..n -> WebItems] : n \in 0..MaxResults}}
    \cup {Reply(FALSE, <<>>)}

NextWeb ==
    \/ pc = "idle" /\ Search(WebQuery, EmptyDict)
    \/ SelectStrategy
    \/ IssuePrimary
    \/ pc = "dispatching" /\ \E reply \in WebReplies : DispatchPrimary(reply)
    \/ PostProcess
    \/ Complete

SpecWeb == InitSelect /\ [][NextWeb]_vars

\* search under the scheduling of the code: every statement of a call that has been
\* invoked is executed, every backend call and every listener returns or raises
LiveQueries == {NoneQuery, <<"wendang", DQUOTE>>, <<"zuixin", SP, "ai", SP, "news">>}

LiveReplies ==
    {NoReply, Reply(FALSE, <<>>)} \cup {Reply(TRUE, <<item>>) : item \in ReplyItems}

CallStep ==
    \/ SelectStrategy
    \/ IssuePrimary
    \/ pc = "dispatching" /\ \E reply \in LiveReplies : DispatchPrimary(reply)
    \/ IssueFallback
    \/ pc = "fallback_dispatching" /\ \E reply \in LiveReplies : DispatchFallback(reply)
    \/ PostProcess
    \/ Complete

NextLive ==
    \/ pc = "idle" /\ \E q \in LiveQueries : Search(q, EmptyDict)
    \/ CallStep
    \/ Return
    \/ /\ pc = "idle" /\ Len(event_handlers) < MaxHandlers
       /\ \E h \in Handlers : add_event_handler(h)
    \/ pc = "idle" /\ \E h \in Handlers : remove_event_handler(h)

SpecLive == Init /\ [][NextLive]_vars /\ WF_vars(CallStep)

\* one call of search after another on the same agent, each return observed
NextCalls ==
    \/ pc = "idle" /\ \E q \in LiveQueries : Search(q, EmptyDict)
    \/ CallStep
    \/ ReturnRecorded
    \/ /\ pc = "idle" /\ Len(event_handlers) < MaxHandlers
       /\ \E h \in Handlers : add_event_handler(h)
    \/ pc = "idle" /\ \E h \in Handlers : remove_event_handler(h)

SpecCalls == Init /\ [][NextCalls]_vars

\* the strategy of every query written with the characters of the keywords
\* (u6700 u65b0 is "zuixin", u6587 u6863 is "wendang"), rewritten or not
CharAtoms == {"u6700", "u65b0", "u6587", "u6863", DQUOTE, "AI", SP}

CharQueries == UNION {[1..n -> CharAtoms] : n \in 0..MaxQueryLen}

CharContexts == {EmptyDict, [doc_type |-> "pdf"]}

NextRewrite ==
    \/ pc = "idle" /\ \E q \in CharQueries, ctx \in CharContexts : Search(q, ctx)
    \/ SelectStrategy

SpecRewrite == InitSelect /\ [][NextRewrite]_vars

\* one call of search on an agent whose listeners change the listener list while
\* they are notified
NotifyHandlers == {"ok", "remove_self", "add_ok"}

InitNotify == Init /\ enable_events /\ zilliz_client /\ opensearch_client

NextNotify ==
    \/ /\ pc = "idle" /\ Len(event_handlers) < MaxListeners
       /\ \E h \in NotifyHandlers : add_event_handler(h)
    \/ pc = "idle" /\ \E q \in LiveQueries : Search(q, EmptyDict)
    \/ CallStep

SpecNotify == InitNotify /\ [][NextNotify]_vars

\* listeners registered several times and removed again, between the calls
NextListeners ==
    \/ /\ pc = "idle" /\ Len(event_handlers) < MaxListeners
       /\ \E h \in Handlers : add_event_handler(h)
    \/ pc = "idle" /\ \E h \in Handlers : remove_event_handler(h)
    \/ pc = "idle" /\ \E q \in LiveQueries : Search(q, EmptyDict)
    \/ CallStep
    \/ Return

SpecListeners == InitNotify /\ [][NextListeners]_vars

\* the web search of a query with a recency keyword, the search engine replying
\* with up to MaxWebResults pages of different contents, some of them neither a
\* mapping nor a string, under every limit and the default score threshold
PageNames == <<"page0", "page1", "page2", "page3", "page4", "page5", "page6",
               "page7", "page8", "page9">>

PageReplies ==
    {{Reply(TRUE, [i \in 1..n |-> RawItem(shapes[i], PageNames[i], 0)]) :
         shapes \in [1..n -> {"dict", "other"}]} : n \in 0..MaxWebResults}

WebRankReplies == UNION PageReplies \cup {Reply(FALSE, <<>>)}

WebRankContexts ==
    {EmptyDict} \cup {[limit |-> n] : n \in 0..(MaxWebResults + 1)}

NextWebRanks ==
    \/ pc = "idle" /\ \E ctx \in WebRankContexts : Search(WebQuery, ctx)
    \/ SelectStrategy
    \/ IssuePrimary
    \/ pc = "dispatching" /\ \E reply \in WebRankReplies : DispatchPrimary(reply)
    \/ PostProcess
    \/ Complete

SpecWebRanks == InitSelect /\ [][NextWebRanks]_vars

----------------------------------------------------------------------------
(* The claims *)

LastEvent(event_type) ==
    events # <<>> /\ events[Len(events)].event = event_type

\* a step of the current call has thrown: think_retrieval_strategy, or
\* _post_process_results on the results that were dispatched
StepThrew ==
    \/ pc \notin {"idle", "started"} /\ ThinkRaises(query, context)
    \/ /\ pc \in {"postprocessed", "completed", "errored", "raised"}
       /\ strategy # None
       /\ PostProcessRaises(results)

FailureReturned ==
    /\ pc = "errored"
    /\ response # None
    /\ response.success = FALSE
    /\ response.results = <<>>
    /\ response.error # None
    /\ response.error.code = "RETRIEVAL_FAILED"

\* C1 as stated: search never raises, and whenever a step inside it throws, search
\* emits a RetrievalError event and returns success = false, results = [],
\* error.code = RETRIEVAL_FAILED.
C1_Stated ==
    /\ pc # "raised"
    /\ StepThrew => FailureReturned /\ LastEvent("RetrievalError")

\* C1 as amended: search never raises, and whenever a step inside it throws, search
\* returns success = false, results = [], error.code = RETRIEVAL_FAILED; the last
\* event it emitted is RetrievalError when events are enabled, and it emitted no
\* event at all when they are disabled.
C1_NeverRaises ==
    /\ pc # "raised"
    /\ StepThrew =>
          /\ FailureReturned
          /\ enable_events => LastEvent("RetrievalError")
          /\ ~enable_events => events = <<>>

C1_Witness ==
    /\ StepThrew
    /\ FailureReturned
    /\ PostProcessRaises(results)
    /\ enable_events
    /\ \E i \in 1..Len(event_handlers) : event_handlers[i] = "raise"

\* the fallback decision of the current call has been taken
FallbackDecided ==
    \/ pc \in {"fallback_dispatched", "postprocessed", "completed"}
    \/ pc \in {"errored", "raised"} /\ dispatches # <<>>

\* C2: a fallback dispatch is issued iff the primary dispatch returned nothing and
\* the strategy has a fallback; it is issued once, with the fallback's strategy type
\* and data source and the primary's query, filters and parameters; its output
\* replaces the primary result set, which is what is post-processed; there is never
\* a third dispatch.
C2_FallbackExactlyWhenNeeded ==
    /\ Len(dispatches) <= 2
    /\ pc = "dispatched" => Len(dispatches) = 1
    /\ dispatches # <<>> =>
          /\ dispatches[1].strategy_type = strategy.strategy_type
          /\ dispatches[1].data_source = strategy.data_source
          /\ dispatches[1].query = strategy.query
          /\ results = dispatches[Len(dispatches)].returned
    /\ FallbackDecided =>
          (Len(dispatches) = 2 <=>
              dispatches[1].returned = <<>> /\ strategy.fallback_strategy # None)
    /\ Len(dispatches) = 2 =>
          /\ dispatches[2].strategy_type = strategy.fallback_strategy.strategy_type
          /\ dispatches[2].data_source = strategy.fallback_strategy.data_source
          /\ dispatches[2].strategy_type # dispatches[1].strategy_type
          /\ dispatches[2].query = dispatches[1].query
          /\ dispatches[2].filters = dispatches[1].filters
          /\ dispatches[2].parameters = dispatches[1].parameters
    /\ pc \in {"postprocessed", "completed"} =>
          processed_results =
              post_process_results(dispatches[Len(dispatches)].returned, strategy)

C2_Witness ==
    /\ pc = "completed"
    /\ Len(dispatches) = 2
    /\ dispatches[1].called
    /\ dispatches[1].returned = <<>>
    /\ dispatches[2].returned # <<>>
    /\ response.results = dispatches[2].returned

\* _post_process_results has returned in the current call
PostDone == pc \in {"postprocessed", "completed"}

NonIncreasing(rs) ==
    \A i \in 1..Len(rs), j \in 1..Len(rs) : i < j => rs[i].score >= rs[j].score

\* C3 as stated: for all result sequences, limits and thresholds, the output of
\* _post_process_results has non-increasing scores, every score >= score_threshold,
\* and length <= limit.
C3_Stated ==
    PostDone =>
       /\ NonIncreasing(processed_results)
       /\ \A i \in 1..Len(processed_results) :
             processed_results[i].score >= strategy.parameters.score_threshold
       /\ Len(processed_results) <= strategy.parameters.limit

\* C4 as stated: _post_process_results is idempotent: applied to its own output with
\* the same strategy it returns that output.
C4_Stated ==
    PostDone => post_process_results(processed_results, strategy) = processed_results

(* The reference pipeline of C5 and C6, stated on positions rather than by loops. *)

\* the first 100 characters of a result's content
RefKey(r) ==
    LET t == Text(r.content) IN [i \in 1..(IF Len(t) < 100 THEN Len(t) ELSE 100) |-> t[i]]

\* the elements of s at the positions in I, in the order of s
Pick(s, I) ==
    [k \in 1..Cardinality(I) |->
        s[CHOOSE i \in I : Cardinality({j \in I : j < i}) = k - 1]]

\* the positions of the first occurrence of each key
FirstOccurrences(rs) ==
    {i \in 1..Len(rs) : \A j \in 1..(i - 1) : RefKey(rs[j]) # RefKey(rs[i])}

RefDedupe(rs) == Pick(rs, FirstOccurrences(rs))

\* how many elements a stable descending sort puts before element i
Before(rs, i) ==
    Cardinality({j \in 1..Len(rs) :
                    \/ rs[j].score > rs[i].score
                    \/ rs[j].score = rs[i].score /\ j < i})

RefStableSortDescending(rs) ==
    [k \in 1..Len(rs) |-> rs[CHOOSE i \in 1..Len(rs) : Before(rs, i) = k - 1]]

RefFilter(rs, threshold) ==
    Pick(rs, {i \in 1..Len(rs) : rs[i].score >= threshold})

\* the first n elements: none when n is not positive
RefTakeFirst(rs, n) ==
    [k \in 1..(IF n <= 0 THEN 0 ELSE IF n < Len(rs) THEN n ELSE Len(rs)) |-> rs[k]]

RefPipeline(rs, threshold, limit) ==
    RefTakeFirst(RefFilter(RefStableSortDescending(RefDedupe(rs)), threshold), limit)

\* C5 as stated: the output of _post_process_results is
\* take-first-limit(filter(score >= threshold, stable-sort-descending(dedupe(results)))).
C5_Stated ==
    PostDone =>
       processed_results =
           RefPipeline(results, strategy.parameters.score_threshold,
                       strategy.parameters.limit)

\* C6: deduplication keys a result by the first 100 characters of its content; the
\* deduplicated list is the first occurrence of every key, in input order; every
\* result of the output is such a first occurrence and no two of them share a key.
C6_DedupeKeepsFirst ==
    /\ ~PostProcessRaises(results) => Dedupe(results) = RefDedupe(results)
    /\ PostDone =>
          /\ \A k \in 1..Len(processed_results) :
                \E i \in FirstOccurrences(results) : processed_results[k] = results[i]
          /\ \A k \in 1..Len(processed_results), m \in 1..Len(processed_results) :
                k # m => RefKey(processed_results[k]) # RefKey(processed_results[m])

\* a later duplicate (same first 100 characters, other content, higher score) was
\* dropped and the first occurrence was kept
C6_Witness ==
    /\ PostDone
    /\ \E i \in 1..Len(results), j \in 1..Len(results) :
          /\ i < j
          /\ results[i].content = "longA"
          /\ results[j].content = "longB"
          /\ results[j].score > results[i].score
    /\ \E k \in 1..Len(processed_results) : processed_results[k].content = "longA"
    /\ \A k \in 1..Len(processed_results) : processed_results[k].content # "longB"

(* The selector's input is the rewritten query, strategy.query. *)

Has(s, atoms) == \E i \in 1..Len(s) : s[i] \in atoms

\* the query contains one of the five recency keywords as written in the source
HasRecencyKeyword(s) ==
    Has(s, {"zuixin", "xinwen", "shishi", "current", "latest"})

\* the query contains a recency keyword in some letter case
HasRecencyKeywordAnyCase(s) ==
    Has(s, {"zuixin", "xinwen", "shishi", "current", "latest", "CURRENT", "LATEST"})

IsPdf == "doc_type" \in DOMAIN context /\ context.doc_type = "pdf"

\* C7: a query that contains a recency keyword gets strategy web, whatever the
\* context (doc_type pdf included) and whatever else the query contains.
C7_RecencyWins ==
    strategy # None =>
       /\ HasRecencyKeyword(strategy.query) => strategy.strategy_type = "web"
       /\ HasRecencyKeyword(query) => strategy.strategy_type = "web"

C7_Witness ==
    /\ strategy # None
    /\ IsPdf
    /\ Has(query, {"latest"})
    /\ Has(query, {"wendang"})
    /\ Has(query, {"\""})
    /\ strategy.strategy_type = "web"

\* first match wins among: pdf or document marker -> vector, quote character ->
\* keyword, otherwise hybrid
RulesAfterRecency ==
    LET q == strategy.query
        doc == IsPdf \/ Has(q, {"wendang"})
        quoted == Has(q, {"\"", "backtick"})
    IN  /\ doc => strategy.strategy_type = "vector"
        /\ ~doc /\ quoted => strategy.strategy_type = "keyword"
        /\ ~doc /\ ~quoted => strategy.strategy_type = "hybrid"

\* C8 as stated: for every query that contains no recency keyword, the strategy is
\* vector if doc_type is pdf or the query has the document marker, else keyword if
\* it has a double quote or a backtick, else hybrid.
C8_Stated ==
    strategy # None /\ ~HasRecencyKeyword(strategy.query) => RulesAfterRecency

\* C8 as amended: the same for every query that contains no recency keyword in any
\* letter case (the selector lowercases the query before it looks for them).
C8_FirstMatchWins ==
    strategy # None /\ ~HasRecencyKeywordAnyCase(strategy.query) => RulesAfterRecency

C8_Witness ==
    /\ strategy # None
    /\ ~IsPdf
    /\ ~HasRecencyKeywordAnyCase(strategy.query)
    /\ Has(query, {"wendang"})
    /\ Has(query, {"\""})
    /\ Has(query, {"backtick"})
    /\ strategy.strategy_type = "vector"

\* the whitespace-separated tokens of a string, scanned from the left
RECURSIVE RefSplit(_)
RefSplit(s) ==
    IF s = <<>> THEN <<>>
    ELSE IF Head(s) = " " THEN RefSplit(Tail(s))
    ELSE LET n == IF \E i \in 1..Len(s) : s[i] = " "
                  THEN (CHOOSE i \in 1..Len(s) :
                            s[i] = " " /\ \A j \in 1..(i - 1) : s[j] # " ") - 1
                  ELSE Len(s)
         IN  <<SubSeq(s, 1, n)>> \o RefSplit(SubSeq(s, n + 1, Len(s)))

\* C9: a query of fewer than 3 whitespace-separated tokens (the empty query
\* included) is rewritten to the query followed by the fixed suffix; a query of 3 or
\* more tokens is left as it is.
C9_RewriteByTokenCount ==
    strategy # None =>
       IF Len(RefSplit(query)) < 3
       THEN strategy.query = query \o <<" ", "xiangguanxinxihexiangxineirong">>
       ELSE strategy.query = query

\* two tokens around a double space: the last count that is rewritten
C9_Witness ==
    /\ strategy # None
    /\ Len(query) = 5
    /\ Len(RefSplit(query)) = 2
    /\ strategy.query = query \o <<" ", "xiangguanxinxihexiangxineirong">>
    /\ strategy.original_query = query

\* the backend reply of the k-th dispatch of the current call
Replied(k) == IF Len(dispatches) >= k THEN dispatches[k].reply ELSE NoReply

\* what search returns for the current call's query, context and backend replies
\* when no event is delivered to anyone, with the vector store configured or not (z)
\* and the keyword index configured or not (o)
ResponseFor(z, o) ==
    IF ThinkRaises(query, context) THEN FailureResponse(query)
    ELSE LET s == think_retrieval_strategy(query, context)
             primary == execute_search_strategy(s, z, o, Replied(1))
             rs == IF primary = <<>> /\ s.fallback_strategy # None
                   THEN execute_search_strategy(FallbackStrategy(s), z, o, Replied(2))
                   ELSE primary
         IN  IF PostProcessRaises(rs) THEN FailureResponse(query)
             ELSE SuccessResponse(query, s, post_process_results(rs, s))

ResponseWithoutListeners == ResponseFor(zilliz_client, opensearch_client)

\* C10: whatever listeners are registered (raising ones included), search returns,
\* no exception escapes it, and success, results and error of the response are those
\* of the same call (same query, context and backend replies) with no listener.
C10_ListenersDoNotInfluence ==
    /\ pc # "raised"
    /\ pc \in {"completed", "errored"} =>
          LET expected == ResponseWithoutListeners IN
          /\ response # None
          /\ response.success = expected.success
          /\ response.results = expected.results
          /\ response.error = expected.error

\* a call on the success path, every event of which went to a raising listener
C10_Witness ==
    /\ pc = "completed"
    /\ enable_events
    /\ event_handlers # <<>>
    /\ \A i \in 1..Len(event_handlers) : event_handlers[i] = "raise"
    /\ Len(events) >= 4
    /\ \A k \in 1..Len(events) : events[k].calls # <<>>
    /\ response.success
    /\ response.results # <<>>

\* C11: for each emitted event (the listener list is never changed while a call of
\* search is running), every registered handler is invoked exactly once, one after
\* the other, in registration order; a handler that raises does not keep a handler
\* registered after it from being invoked for that event.
C11_EveryHandlerOnceInOrder ==
    \A k \in 1..Len(events) :
        events[k].calls = [i \in 1..Len(event_handlers) |-> i]

\* an event delivered to a raising handler and then to the handler after it
C11_Witness ==
    /\ event_handlers = <<"raise", "ok">>
    /\ Len(events) >= 2
    /\ events[Len(events)].calls = <<1, 2>>

\* the backend call of dispatch d, or the formatting of what it returned, throws:
\* the call raises, or an item of the vector store or of the keyword index is not a
\* mapping (the web dispatcher skips such an item)
Throws(d) ==
    \/ ~d.reply.ok
    \/ /\ d.data_source \in {"zilliz_cloud", "opensearch"}
       /\ \E i \in 1..Len(d.reply.items) : d.reply.items[i].shape # "dict"

EventCount(event_type) ==
    Cardinality({k \in 1..Len(events) : events[k].event = event_type})

\* C12: a dispatcher never raises past its boundary: whenever its backend call or the
\* formatting of the response throws, it returns the empty sequence, whatever it had
\* formatted before; nothing is thrown into _execute_search_strategy, which goes on
\* to announce the tool call when events are enabled.
C12_DispatchersFailSoft ==
    /\ \A k \in 1..Len(dispatches) :
           dispatches[k].called /\ Throws(dispatches[k]) => dispatches[k].returned = <<>>
    /\ enable_events => EventCount("ToolCallCompleted") = Len(dispatches)

\* the vector dispatcher threw on its second item, then the keyword dispatcher's
\* backend call raised
C12_Witness ==
    /\ Len(dispatches) = 2
    /\ dispatches[1].data_source = "zilliz_cloud"
    /\ dispatches[1].called
    /\ dispatches[1].reply.ok
    /\ Len(dispatches[1].reply.items) = 2
    /\ dispatches[1].reply.items[1].shape = "dict"
    /\ dispatches[1].reply.items[2].shape = "str"
    /\ dispatches[1].returned = <<>>
    /\ dispatches[2].data_source = "opensearch"
    /\ dispatches[2].called
    /\ ~dispatches[2].reply.ok
    /\ dispatches[2].returned = <<>>
    /\ pc = "completed"

\* dispatch d went to a dispatcher whose client was never configured
Unconfigured(d) ==
    \/ d.data_source = "zilliz_cloud" /\ ~zilliz_client
    \/ d.data_source = "opensearch" /\ ~opensearch_client

\* C13: a vector or keyword dispatcher without a client returns the empty sequence
\* at once: no backend call is issued (none is ever in flight for it) and nothing is
\* raised; the orchestrator goes on as for a configured backend that returned
\* nothing: it runs the fallback when there is one, and its response is the one it
\* gives when both backends are configured and these calls return no item.
C13_UnconfiguredIsEmpty ==
    /\ \A k \in 1..Len(dispatches) :
           Unconfigured(dispatches[k]) =>
              /\ ~dispatches[k].called
              /\ dispatches[k].reply = NoReply
              /\ dispatches[k].returned = <<>>
    /\ pc = "dispatching" /\ Unconfigured(strategy) => in_flight = 0
    /\ pc = "fallback_dispatching" /\ Unconfigured(FallbackStrategy(strategy)) =>
          in_flight = 0
    /\ FallbackDecided /\ Unconfigured(dispatches[1])
          /\ strategy.fallback_strategy # None => Len(dispatches) = 2
    /\ pc \in {"completed", "errored"} => response = ResponseFor(TRUE, TRUE)

\* the vector store was never configured: its dispatch returned nothing without a
\* backend call, and the fallback's results were returned
C13_Witness ==
    /\ pc = "completed"
    /\ ~zilliz_client
    /\ Len(dispatches) = 2
    /\ dispatches[1].data_source = "zilliz_cloud"
    /\ ~dispatches[1].called
    /\ dispatches[1].returned = <<>>
    /\ dispatches[2].called
    /\ response.results # <<>>

\* the state of the per-call state machine that a position of search stands for:
\* the strategy stays selected until the primary dispatch has returned, and the
\* call stays dispatched until the fallback dispatch has returned
Stage(p) ==
    CASE p = "idle" -> "NoCall"
      [] p = "started" -> "Started"
      [] p \in {"selected", "dispatching"} -> "StrategySelected"
      [] p \in {"dispatched", "fallback_dispatching"} -> "Dispatched"
      [] p = "fallback_dispatched" -> "FallbackDispatched"
      [] p = "postprocessed" -> "PostProcessed"
      [] p = "completed" -> "Completed"
      [] p = "errored" -> "Errored"
      [] OTHER -> "Raised"

StageSteps ==
    {<<"NoCall", "Started">>,
     <<"Started", "StrategySelected">>,
     <<"StrategySelected", "Dispatched">>,
     <<"Dispatched", "FallbackDispatched">>,
     <<"Dispatched", "PostProcessed">>,
     <<"FallbackDispatched", "PostProcessed">>,
     <<"PostProcessed", "Completed">>,
     <<"Completed", "NoCall">>,
     <<"Errored", "NoCall">>}
    \cup {<<a, "Errored">> : a \in {"Started", "StrategySelected", "Dispatched",
                                     "FallbackDispatched", "PostProcessed"}}

\* the events of a call that completed, without and with a fallback
CompletedEvents ==
    {<<"RetrievalStarted", "RetrievalStrategyCompleted", "ToolCallCompleted",
       "RetrievalCompleted">>,
     <<"RetrievalStarted", "RetrievalStrategyCompleted", "ToolCallCompleted",
       "FallbackStrategyActivated", "ToolCallCompleted", "RetrievalCompleted">>}

EventNames == [k \in 1..Len(events) |-> events[k].event]

\* C14: a search call goes Started -> StrategySelected -> Dispatched ->
\* (FallbackDispatched)? -> PostProcessed -> Completed, or to Errored from a state
\* that is not terminal; no state is skipped or entered twice, post-processing comes
\* after a dispatch, and the call ends in exactly one of Completed (a success
\* response) and Errored (a failure response), which it leaves only by returning.
C14_StateMachine ==
    /\ [](Stage(pc) # "Raised")
    /\ [](pc \in {"postprocessed", "completed"} => dispatches # <<>>)
    /\ [](pc = "completed" => response.success /\ response.error = None)
    /\ [](pc = "errored" => ~response.success /\ response.error # None)
    /\ [](pc = "completed" /\ enable_events => EventNames \in CompletedEvents)
    /\ [][Stage(pc') # Stage(pc) => <<Stage(pc), Stage(pc')>> \in StageSteps]_vars

\* a call that went through every state, the fallback included
C14_Witness ==
    /\ pc = "completed"
    /\ enable_events
    /\ Len(EventNames) = 6
    /\ Len(dispatches) = 2

\* C15: within a search call at most one backend call is in flight at any time, and
\* the fallback dispatch begins only after the primary dispatch has returned and its
\* result has been seen to be empty.
C15_DispatchesSequential ==
    /\ in_flight \in {0, 1}
    /\ in_flight = 1 => pc \in {"dispatching", "fallback_dispatching"}
    /\ pc = "dispatching" => dispatches = <<>>
    /\ pc = "fallback_dispatching" =>
          /\ Len(dispatches) = 1
          /\ dispatches[1].returned = <<>>
          /\ results = <<>>

\* the fallback's backend call is in flight after the primary's backend call returned
\* nothing
C15_Witness ==
    /\ pc = "fallback_dispatching"
    /\ in_flight = 1
    /\ Len(dispatches) = 1
    /\ dispatches[1].called
    /\ dispatches[1].reply.ok
    /\ dispatches[1].returned = <<>>

\* search has returned a response
Returned ==
    /\ pc \in {"completed", "errored"}
    /\ response # None
    /\ response.success \/ response.error.code = "RETRIEVAL_FAILED"
    /\ in_flight = 0

\* C16: every invocation of search ends with a returned response, a success or
\* RETRIEVAL_FAILED, when every backend call and every listener invocation returns
\* or raises and the listener list does not change during the call.
C16_SearchTerminates == (pc = "started") ~> Returned

\* a call returned after a backend call raised, a fallback ran and every event went
\* to a raising listener
C16_Witness ==
    /\ Returned
    /\ enable_events
    /\ event_handlers = <<"raise", "raise">>
    /\ Len(dispatches) = 2
    /\ ~dispatches[1].reply.ok

\* the fallback table as the specification gives it; "absent" is no fallback
RefFallback(s) ==
    CASE s = "vector" -> "keyword"
      [] s = "keyword" -> "web"
      [] s = "hybrid" -> "keyword"
      [] s = "web" -> "absent"
      [] s = "crm" -> "absent"

\* the strategy type a fallback record names, "absent" for no record
FallbackType(fallback) ==
    IF fallback = None THEN "absent" ELSE fallback.strategy_type

FallbackTableHolds ==
    \A s \in {"vector", "keyword", "hybrid", "web", "crm"} :
        FallbackType(get_fallback_strategy(s)) = RefFallback(s)

\* C17: the fallback of a strategy is vector -> keyword, keyword -> web, hybrid ->
\* keyword, and none for web and crm; a search whose strategy is web makes exactly
\* one dispatch, also when that dispatch returns nothing.
C17_FallbackTable ==
    /\ FallbackTableHolds
    /\ strategy # None =>
          FallbackType(strategy.fallback_strategy) = RefFallback(strategy.strategy_type)
    /\ strategy # None /\ strategy.strategy_type = "web" =>
          /\ pc # "fallback_dispatching"
          /\ Len(dispatches) <= 1
          /\ pc \in {"dispatched", "postprocessed", "completed"} => Len(dispatches) = 1

\* a web search whose only dispatch returned nothing has completed
C17_Witness ==
    /\ pc = "completed"
    /\ strategy.strategy_type = "web"
    /\ strategy.fallback_strategy = None
    /\ Len(dispatches) = 1
    /\ dispatches[1].called
    /\ dispatches[1].returned = <<>>
    /\ response.results = <<>>

\* the data source table as the specification gives it
RefSource(s) ==
    CASE s = "vector" -> "zilliz_cloud"
      [] s = "hybrid" -> "zilliz_cloud"
      [] s = "keyword" -> "opensearch"
      [] s = "web" -> "duckduckgo"
      [] s = "crm" -> "crm_api"

\* the dispatcher of a data source, and the source it writes into its results
RefDispatcher(data_source) ==
    CASE data_source = "zilliz_cloud" -> [name |-> "zilliz_search", tag |-> "zilliz_cloud"]
      [] data_source = "opensearch" -> [name |-> "opensearch_search", tag |-> "opensearch"]
      [] data_source = "duckduckgo" -> [name |-> "web_search", tag |-> "web"]
      [] data_source = "crm_api" -> [name |-> "none", tag |-> "none"]

CrmStrategy == [strategy_type |-> "crm", data_source |-> "crm_api"]

\* the two tables and the crm case, on the functions themselves
SourceTablesHold ==
    /\ \A s \in {"vector", "keyword", "hybrid", "web", "crm"} :
           get_data_source_for_strategy(s) = RefSource(s)
    /\ \A s \in {"vector", "keyword", "hybrid"} :
           get_fallback_strategy(s).data_source = RefSource(RefFallback(s))
    /\ Dispatcher("crm_api") = "none"
    /\ ~BackendCalled("crm_api", TRUE, TRUE)
    /\ \A reply \in Replies :
           execute_search_strategy(CrmStrategy, TRUE, TRUE, reply) = <<>>

\* C18: the data source of a strategy is vector, hybrid -> vector store, keyword ->
\* keyword index, web -> web search, crm -> crm api; a fallback record carries the
\* table entry of the fallback strategy; _execute_search_strategy invokes exactly
\* the dispatcher of the strategy's data source (its results carry that dispatcher's
\* source), and for a data source without a dispatcher it invokes none and returns
\* the empty sequence.
C18_DataSourceTable ==
    /\ SourceTablesHold
    /\ strategy # None =>
          /\ strategy.data_source = RefSource(strategy.strategy_type)
          /\ strategy.fallback_strategy # None =>
                strategy.fallback_strategy.data_source =
                    RefSource(strategy.fallback_strategy.strategy_type)
    /\ \A k \in 1..Len(dispatches) :
           LET d == dispatches[k] IN
           /\ d.data_source = RefSource(d.strategy_type)
           /\ d.dispatcher = RefDispatcher(d.data_source).name
           /\ \A i \in 1..Len(d.returned) :
                 d.returned[i].source = RefDispatcher(d.data_source).tag

\* a hybrid search went to the vector store and then, by its fallback record, to
\* the keyword index, whose results were returned
C18_Witness ==
    /\ Len(dispatches) = 2
    /\ dispatches[1].strategy_type = "hybrid"
    /\ dispatches[1].dispatcher = "zilliz_search"
    /\ dispatches[2].strategy_type = "keyword"
    /\ dispatches[2].dispatcher = "opensearch_search"
    /\ dispatches[2].returned # <<>>
    /\ dispatches[2].returned[1].source = "opensearch"

\* the keys the builder adds for a strategy
RefAddedKeys(t) ==
    CASE t \in {"vector", "keyword"} -> {"search_fields"}
      [] t = "hybrid" -> {"vector_weight", "keyword_weight"}
      [] OTHER -> {}

\* C19: the parameters always hold limit (the context's, else 10) and
\* score_threshold (the context's, else 0.5, here 5 tenths); search_fields is
\* [content, summary] exactly for vector and [title, content, keywords] exactly for
\* keyword; vector_weight 0.7 and keyword_weight 0.3 are there exactly for hybrid,
\* whatever the context says; nothing is added for web.
C19_ParametersByStrategy ==
    strategy # None =>
       LET params == strategy.parameters
           t == strategy.strategy_type
       IN  /\ DOMAIN params = {"limit", "score_threshold"} \cup RefAddedKeys(t)
           /\ params.limit = IF "limit" \in DOMAIN context THEN context.limit ELSE 10
           /\ params.score_threshold =
                 IF "score_threshold" \in DOMAIN context THEN context.score_threshold
                 ELSE 5
           /\ t = "vector" => params.search_fields = <<"content", "summary">>
           /\ t = "keyword" => params.search_fields = <<"title", "content", "keywords">>
           /\ t = "hybrid" => params.vector_weight = 7 /\ params.keyword_weight = 3
           /\ t = "web" => params = [limit |-> params.limit,
                                     score_threshold |-> params.score_threshold]

\* a hybrid strategy under a context that sets limit, score_threshold and both
\* weights
C19_Witness ==
    /\ strategy # None
    /\ strategy.strategy_type = "hybrid"
    /\ context = [limit |-> 0, score_threshold |-> 4,
                  vector_weight |-> 5, keyword_weight |-> 5]
    /\ strategy.parameters = [limit |-> 0, score_threshold |-> 4,
                              vector_weight |-> 7, keyword_weight |-> 3]

\* the positions of the raw items that are mappings or plain strings
Formattable(items) ==
    {i \in 1..Len(items) : items[i].shape \in {"dict", "str"}}

\* one result per mapping or string, in raw order, scored 1.0 - 0.1 * rank by the
\* 0-based rank of the item in the raw list (in tenths: 10 - rank)
RefWebResults(items) ==
    Pick([i \in 1..Len(items) |->
             [content |-> items[i].content, score |-> 10 - (i - 1), source |-> "web"]],
         Formattable(items))

\* C20: the web dispatcher takes a raw list of mappings and plain strings and gives
\* the item at 0-based rank i the score 1.0 - 0.1 * i; the scores of the returned
\* sequence are strictly decreasing in output order; every mapping and every plain
\* string yields exactly one result.
C20_WebScoresByRank ==
    \A k \in 1..Len(dispatches) :
        LET d == dispatches[k]
            items == d.reply.items
            out == d.returned
        IN  d.dispatcher = "web_search" /\ d.reply.ok =>
               /\ out = RefWebResults(items)
               /\ Len(out) = Cardinality(Formattable(items))
               /\ \A j \in 1..Len(out), m \in 1..Len(out) :
                     j < m => out[j].score > out[m].score
               /\ Formattable(items) = 1..Len(items) =>
                     /\ Len(out) = Len(items)
                     /\ \A i \in 1..Len(out) :
                           /\ out[i].score = 10 - (i - 1)
                           /\ out[i].content = items[i].content

\* a raw list of a string, a mapping and a string gave three results scored 1.0,
\* 0.9 and 0.8
C20_Witness ==
    /\ Len(dispatches) = 1
    /\ dispatches[1].dispatcher = "web_search"
    /\ Len(dispatches[1].reply.items) = 3
    /\ dispatches[1].reply.items[1].shape = "str"
    /\ dispatches[1].reply.items[2].shape = "dict"
    /\ dispatches[1].reply.items[3].shape = "str"
    /\ Len(dispatches[1].returned) = 3
    /\ dispatches[1].returned[1].score = 10
    /\ dispatches[1].returned[2].score = 9
    /\ dispatches[1].returned[3].score = 8

\* every dispatch of the current call failed: its dispatcher had no client, or its
\* backend call or the formatting of the reply threw
AllDispatchesFailed ==
    /\ dispatches # <<>>
    /\ \A k \in 1..Len(dispatches) :
           Unconfigured(dispatches[k]) \/ (dispatches[k].called /\ Throws(dispatches[k]))

\* C21: a backend that is unavailable, unconfigured or throws is never surfaced as an
\* error: when every dispatch of a call has failed or was unconfigured, the call does
\* not end in the RETRIEVAL_FAILED response but returns success = true, results = []
\* and error = null.
C21_BackendFailureIsEmptySuccess ==
    AllDispatchesFailed =>
       /\ pc \notin {"errored", "raised"}
       /\ results = <<>>
       /\ pc = "completed" =>
             /\ response.success
             /\ response.results = <<>>
             /\ response.error = None

\* the vector store's call raised and the keyword index was never configured
C21_Witness ==
    /\ pc = "completed"
    /\ Len(dispatches) = 2
    /\ dispatches[1].called
    /\ ~dispatches[1].reply.ok
    /\ Unconfigured(dispatches[2])
    /\ response.success
    /\ response.results = <<>>
    /\ response.error = None

\* a search call is running before or after the step
InCall == pc # "idle" \/ pc' # "idle"

\* the current call was given the query, the context and the backend replies of the
\* call before it
SameInputsAsPrevious ==
    /\ previous # None
    /\ previous.query = query
    /\ previous.context = context
    /\ previous.replies = [k \in 1..Len(dispatches) |-> dispatches[k].reply]

\* C22: search keeps no state from one call to the next: a step of a search call
\* leaves the listener list as it is (no listener here changes it), and the
\* strategy, the results and the success flag of a call are those that its own query,
\* context and backend replies give, whatever call went before on the same agent.
C22_NoCrossCallState ==
    /\ [](strategy # None => strategy = think_retrieval_strategy(query, context))
    /\ [](pc \in {"completed", "errored"} =>
            LET expected == ResponseFor(zilliz_client, opensearch_client) IN
            /\ response.success = expected.success
            /\ response.results = expected.results)
    /\ [](pc = "idle" =>
            /\ strategy = None /\ results = <<>> /\ processed_results = <<>>
            /\ response = None /\ events = <<>> /\ dispatches = <<>>)
    /\ [](SameInputsAsPrevious /\ pc \in {"completed", "errored"} =>
            /\ previous.strategy_type =
                  IF strategy = None THEN "none" ELSE strategy.strategy_type
            /\ previous.success = response.success
            /\ previous.results = response.results)
    /\ [][InCall => event_handlers' = event_handlers]_vars

\* a web search succeeded with results right after a call with a document query
\* had failed, with a listener registered all along
C22_Witness ==
    /\ previous # None
    /\ previous.query = <<"wendang", "\"">>
    /\ previous.strategy_type = "vector"
    /\ ~previous.success
    /\ event_handlers # <<>>
    /\ pc = "completed"
    /\ strategy.strategy_type = "web"
    /\ response.success
    /\ response.results # <<>>

\* the rewritten form of a query, by its whitespace-separated tokens
RefRewritten(q) ==
    IF Len(RefSplit(q)) < 3 THEN q \o <<" ", "xiangguanxinxihexiangxineirong">> ELSE q

\* C23: in a success response metadata.query is the caller's query verbatim,
\* metadata.rewritten_query is the rewritten query that was dispatched,
\* metadata.total_results is the length of results and error is null; in a failure
\* response results is empty and error is not null; no response has success = true
\* and an error.
C23_ResponseShape ==
    /\ response # None => (response.success <=> response.error = None)
    /\ response # None /\ response.success =>
          /\ pc = "completed"
          /\ response.metadata.query = query
          /\ response.metadata.rewritten_query = RefRewritten(query)
          /\ \A k \in 1..Len(dispatches) :
                dispatches[k].query = response.metadata.rewritten_query
          /\ response.metadata.total_results = Len(response.results)
          /\ response.results = processed_results
    /\ response # None /\ ~response.success =>
          /\ pc = "errored"
          /\ response.results = <<>>
          /\ response.error.code = "RETRIEVAL_FAILED"

\* a success response with results for a query that was rewritten before it was
\* dispatched
C23_Witness ==
    /\ pc = "completed"
    /\ response.success
    /\ response.metadata.query = <<"\"", "ai", "\"">>
    /\ response.metadata.rewritten_query # response.metadata.query
    /\ dispatches[1].query = response.metadata.rewritten_query
    /\ response.metadata.total_results = 2
    /\ Len(response.results) = 2

\* the non-empty prefixes of the sequences of a completed call that stop before
\* RetrievalCompleted
RunningEvents ==
    UNION {{SubSeq(full, 1, n) : n \in 1..(Len(full) - 1)} : full \in CompletedEvents}

ErroredEvents == {Append(prefix, "RetrievalError") : prefix \in RunningEvents}

\* C24: with events enabled, the events of a search call are RetrievalStarted,
\* RetrievalStrategyCompleted, ToolCallCompleted, then optionally
\* FallbackStrategyActivated and a second ToolCallCompleted, then RetrievalCompleted,
\* or a prefix of that followed by RetrievalError; RetrievalStarted is first, exactly
\* one of RetrievalCompleted and RetrievalError is emitted and it is last, and
\* FallbackStrategyActivated comes after the first ToolCallCompleted.
C24_EventOrder ==
    enable_events /\ pc # "idle" =>
       /\ EventNames[1] = "RetrievalStarted"
       /\ pc = "completed" => EventNames \in CompletedEvents
       /\ pc = "errored" => EventNames \in ErroredEvents
       /\ pc \notin {"completed", "errored"} => EventNames \in RunningEvents
       /\ EventCount("RetrievalCompleted") + EventCount("RetrievalError") =
             IF pc \in {"completed", "errored"} THEN 1 ELSE 0
       /\ \A k \in 1..Len(EventNames) :
             EventNames[k] = "FallbackStrategyActivated" =>
                \E j \in 1..(k - 1) : EventNames[j] = "ToolCallCompleted"

\* a call that failed in post-processing after its fallback dispatch
C24_Witness ==
    /\ enable_events
    /\ pc = "errored"
    /\ EventNames = <<"RetrievalStarted", "RetrievalStrategyCompleted",
                      "ToolCallCompleted", "FallbackStrategyActivated",
                      "ToolCallCompleted", "RetrievalError">>

----------------------------------------------------------------------------
(* C25 *)

\* the suffix holds none of the texts the selector looks for
SuffixIsNeutral ==
    \A k \in {"zuixin", "xinwen", "shishi", "current", "latest", "wendang",
               "\"", "backtick"} : ~Contains(QuerySuffix, k)

\* C25: the rewrite never changes the selected strategy: the strategy of a call
\* (selected on the rewritten query) is the strategy selected on the original
\* query, and appending the suffix to the query leaves the selection as it is,
\* because the suffix holds no recency keyword, no document marker and no quote
C25_RewriteKeepsStrategy ==
    /\ SuffixIsNeutral
    /\ strategy # None =>
          /\ strategy.strategy_type = select_search_strategy(query, context)
          /\ select_search_strategy(query \o QuerySuffix, context) =
                select_search_strategy(query, context)
          /\ strategy.fallback_strategy =
                get_fallback_strategy(select_search_strategy(query, context))

\* the one-token query AI is rewritten and still yields hybrid, fallback keyword
C25_Witness ==
    /\ pc = "selected"
    /\ query = <<"AI">>
    /\ strategy.query = <<"AI">> \o QuerySuffix
    /\ strategy.strategy_type = "hybrid"
    /\ strategy.fallback_strategy.strategy_type = "keyword"

\* a query that ends in the first character of a keyword is rewritten too
C25_WitnessBoundary ==
    /\ pc = "selected"
    /\ query = <<"AI", "u6700">>
    /\ strategy.query # query
    /\ strategy.strategy_type = "hybrid"

----------------------------------------------------------------------------
(* C26 *)

\* the returned results came from the fallback dispatch
ServedByFallback ==
    /\ Len(dispatches) = 2
    /\ dispatches[1].returned = <<>>
    /\ dispatches[2].returned # <<>>
    /\ response.results # <<>>

\* C26: a success response names, in metadata.strategy_used and
\* metadata.data_source, the primary strategy (the one dispatched first) and its
\* data source, also when the fallback dispatch produced the results; the
\* RetrievalCompleted event reports the primary strategy too
C26_MetadataNamesPrimary ==
    pc = "completed" =>
       /\ response.success
       /\ response.metadata.strategy_used = dispatches[1].strategy_type
       /\ response.metadata.data_source = dispatches[1].data_source
       /\ enable_events =>
             /\ events[Len(events)].event = "RetrievalCompleted"
             /\ events[Len(events)].data.strategy = dispatches[1].strategy_type
             /\ events[Len(events)].data.results_count = Len(response.results)

\* the fallback served the results, and the response and the event still name
\* the primary strategy
C26_Witness ==
    /\ pc = "completed"
    /\ enable_events
    /\ ServedByFallback
    /\ dispatches[2].strategy_type # dispatches[1].strategy_type
    /\ dispatches[2].data_source # dispatches[1].data_source
    /\ response.metadata.strategy_used = dispatches[1].strategy_type
    /\ events[Len(events)].data.strategy = dispatches[1].strategy_type

----------------------------------------------------------------------------
(* C27 *)

\* C27: deduplication runs before sorting and filtering, so the survivor of the
\* results sharing a 100-character prefix is the first in input order, not the
\* best: a result of the output is the first of its prefix, and when that first
\* one scores below the threshold the output holds no result with the prefix,
\* whatever the later duplicates score
C27_FirstNotBestSurvives ==
    PostDone =>
       LET key == [i \in 1..Len(results) |-> RefKey(results[i])]
           out == [k \in 1..Len(processed_results) |-> RefKey(processed_results[k])]
       IN  \A i \in 1..Len(results) :
              LET first == CHOOSE j \in 1..i :
                              key[j] = key[i] /\ \A x \in 1..(j - 1) : key[x] # key[i]
              IN  /\ \A k \in 1..Len(processed_results) :
                        out[k] = key[i] => processed_results[k] = results[first]
                  /\ results[first].score < strategy.parameters.score_threshold =>
                        \A k \in 1..Len(processed_results) : out[k] # key[i]

\* the first of a prefix is below the threshold, a later duplicate is above it,
\* and the output, which is not empty, holds no result with that prefix
C27_Witness ==
    /\ PostDone
    /\ Len(results) = 3
    /\ results[1].content = "longA" /\ results[1].score = 4
    /\ results[2].content = "longB" /\ results[2].score = 6
    /\ results[3].content = "short" /\ results[3].score = 6
    /\ strategy.parameters.score_threshold = 5
    /\ strategy.parameters.limit = 10
    /\ Len(processed_results) = 1
    /\ processed_results[1].content = "short"

----------------------------------------------------------------------------
(* C28 *)

\* The entries of the notification loop of event e are numbered as NotifyFrom
\* numbers them: 1..n the list when the loop began, then the appended ones.
EntryKind(e, p) == IF p <= Len(e.listeners) THEN e.listeners[p] ELSE "ok"

WasCalled(e, p) == \E k \in 1..Len(e.calls) : e.calls[k] = p

EntryCount(e) ==
    Len(e.listeners)
      + Cardinality({k \in 1..Len(e.calls) : EntryKind(e, e.calls[k]) = "add_ok"})

RemovedItself(e, p) == WasCalled(e, p) /\ EntryKind(e, p) = "remove_self"

\* the entry after a handler that removed itself is not called
SkipsAfterRemoval(e) ==
    \A p \in 1..(EntryCount(e) - 1) : RemovedItself(e, p) => ~WasCalled(e, p + 1)

\* the entries before the first handler that removed itself are all called
EarlierUnaffected(e) ==
    \A p \in 1..EntryCount(e) :
       RemovedItself(e, p) /\ (\A q \in 1..(p - 1) : ~RemovedItself(e, q)) =>
          \A q \in 1..(p - 1) : WasCalled(e, q)

\* every handler added during the loop is called in that loop
AddedAreCalled(e) ==
    \A p \in (Len(e.listeners) + 1)..EntryCount(e) : WasCalled(e, p)

\* C28 as stated: in every notification the handler after one that removes
\* itself is not notified, the handlers before it are, and a handler added during
\* the notification is notified of that same event.
C28_Stated ==
    \A k \in 1..Len(events) :
       /\ SkipsAfterRemoval(events[k])
       /\ EarlierUnaffected(events[k])
       /\ AddedAreCalled(events[k])

\* C28, amended: in every notification no entry is called twice and the calls
\* keep the order of the list; an entry is skipped exactly when the entry before
\* it is a handler that was called and removed itself.  So the handler after a
\* self-removing one is not notified, the handlers before the first such one
\* are, and a handler added during the notification is notified of that same
\* event unless the entry before it removed itself.
C28_SkippedAfterRemoval ==
    \A k \in 1..Len(events) :
       LET e == events[k] IN
       /\ \A a \in 1..Len(e.calls), b \in 1..Len(e.calls) :
             a < b => e.calls[a] < e.calls[b]
       /\ \A p \in 1..EntryCount(e) :
             WasCalled(e, p) <=> (p = 1 \/ ~RemovedItself(e, p - 1))
       /\ SkipsAfterRemoval(e)
       /\ EarlierUnaffected(e)
       /\ \A p \in (Len(e.listeners) + 1)..EntryCount(e) :
             ~RemovedItself(e, p - 1) => WasCalled(e, p)

\* the first handler adds one, the second removes itself: the first was called,
\* the third is skipped, and the added one is called for the same event
C28_Witness ==
    /\ events # <<>>
    /\ events[1].listeners = <<"add_ok", "remove_self", "ok">>
    /\ events[1].calls = <<1, 2, 4>>
    /\ pc = "started"
    /\ event_handlers = <<"add_ok", "ok", "ok">>

\* the added handler is not notified: it is the entry after the handler that
\* removed itself
C28_AddedSkipped ==
    /\ events # <<>>
    /\ events[1].listeners = <<"add_ok", "remove_self">>
    /\ events[1].calls = <<1, 2>>
    /\ pc = "started"
    /\ event_handlers = <<"add_ok", "ok">>

----------------------------------------------------------------------------
(* C29 *)

Occurrences(s, h) == Cardinality({i \in 1..Len(s) : s[i] = h})

\* s without its first entry equal to h; s itself when it has none
RefWithoutFirst(s, h) ==
    IF Occurrences(s, h) = 0 THEN s
    ELSE LET first == CHOOSE i \in 1..Len(s) :
                         s[i] = h /\ \A j \in 1..(i - 1) : s[j] # h
         IN  [k \in 1..(Len(s) - 1) |-> IF k < first THEN s[k] ELSE s[k + 1]]

\* C29: the listener list is a sequence with duplicates.  Between calls,
\* add_event_handler(h) can always be taken and always appends h;
\* remove_event_handler(h) can always be taken (it raises nothing), removes the
\* first entry equal to h and leaves every other entry and the order as they
\* are, and leaves the list unchanged when h is not registered; and an event
\* is delivered to a handler as many times as the handler is in the list.
C29_ListWithDuplicates ==
    /\ pc = "idle" =>
          \A h \in Handlers :
             /\ ENABLED add_event_handler(h)
             /\ ~ENABLED (add_event_handler(h)
                            /\ event_handlers' # Append(event_handlers, h))
             /\ ENABLED remove_event_handler(h)
             /\ ~ENABLED (remove_event_handler(h)
                            /\ event_handlers' # RefWithoutFirst(event_handlers, h))
    /\ \A k \in 1..Len(events), h \in Handlers :
          Cardinality({c \in 1..Len(events[k].calls) :
                          events[k].listeners[events[k].calls[c]] = h})
             = Occurrences(events[k].listeners, h)

\* a handler registered twice around another one is notified twice of the event
C29_Witness ==
    /\ pc = "started"
    /\ event_handlers = <<"ok", "raise", "ok">>
    /\ events[1].listeners = <<"ok", "raise", "ok">>
    /\ events[1].calls = <<1, 2, 3>>

\* between calls, removing it takes out the first of the two only, and removing
\* a handler that is not registered changes nothing
C29_WitnessRemoval ==
    /\ pc = "idle"
    /\ event_handlers = <<"ok", "ok", "ok">>
    /\ ENABLED (remove_event_handler("ok") /\ event_handlers' = <<"ok", "ok">>)
    /\ ENABLED (remove_event_handler("raise") /\ event_handlers' = event_handlers)

----------------------------------------------------------------------------
(* C30 *)

\* the pages of the reply at ranks 0 to 5 that are mappings or strings, as
\* results, in the order of the ranks (the page of rank k is items[k + 1])
RefPassing(items) ==
    LET kept == {i \in 1..Len(items) : i <= 6 /\ items[i].shape \in {"dict", "str"}}
    IN  [k \in 1..Cardinality(kept) |->
            LET i == CHOOSE x \in kept : Cardinality({y \in kept : y < x}) = k - 1
            IN  [content |-> items[i].content, score |-> 11 - i, source |-> "web"]]

\* C30: with the default score threshold (0.5, here 5 tenths) a search served
\* by the web dispatcher returns at most 6 results whatever the limit is: the
\* pages of rank 6 and beyond score below the threshold and are filtered out,
\* the pages of ranks 0 to 5 score 1.0 down to 0.5 and pass, so the results are
\* the first limit of the pages of ranks 0 to 5
C30_WebAtMostSix ==
    pc = "completed" /\ strategy.data_source = "duckduckgo"
        /\ "score_threshold" \notin DOMAIN context =>
       LET items == dispatches[1].reply.items
           limit == IF "limit" \in DOMAIN context THEN context.limit ELSE 10
       IN  /\ Len(response.results) <= 6
           /\ \A k \in 1..Len(response.results) : response.results[k].score >= 5
           /\ \A i \in 7..Len(items), k \in 1..Len(response.results) :
                 response.results[k].content # items[i].content
           /\ FilterByThreshold(SortByScore(Dedupe(results)), 5) = RefPassing(items)
           /\ response.results = RefTakeFirst(RefPassing(items), limit)

\* eight pages came back, the limit is the default 10, and six results are
\* returned: the last one is the page of rank 5 with score 0.5
C30_Witness ==
    /\ pc = "completed"
    /\ strategy.data_source = "duckduckgo"
    /\ context = EmptyDict
    /\ Len(dispatches[1].reply.items) = 8
    /\ AllDicts(dispatches[1].reply.items)
    /\ Len(results) = 8
    /\ Len(response.results) = 6
    /\ response.results[6] = [content |-> "page5", score |-> 5, source |-> "web"]

====
